---- MODULE Spec2Model ----
(***************************************************************************)
(* A model of migrations/hasura.go: postMetadata, which submits one        *)
(* metadata operation to the Hasura metadata API and classifies the        *)
(* answer, and ApplyHasuraMetadata, which submits five fixed operations    *)
(* in order.  The remote endpoint is the environment: every submission     *)
(* draws its transport result, status and body from Responses.             *)
(***************************************************************************)
EXTENDS Integers, Sequences, FiniteSets, TLC

VARIABLES
    pc,        \* position of ApplyHasuraMetadata: the operation it submits next
    url,       \* the url argument of the running invocation
    calls,     \* the POSTs the running invocation has issued, in order
    outcomes,  \* one entry per postMetadata call of the running invocation
    resp,      \* what client.Do gave the latest postMetadata call
    err,       \* what the latest postMetadata call returned
    result,    \* what the invocation returned (or that it panicked)
    warnings,  \* what the invocation gave to logger.Warnf
    runs,      \* invocations started so far
    endpoint,  \* how the remote endpoint answers: "any", "idempotent" or "scripted"
    remote,    \* the operations an idempotent remote metadata store has applied
    script,    \* the answers a scripted endpoint gives to the calls of an invocation
    previous,  \* under a scripted endpoint: what the previous invocation did
    marshalled, \* per operation, the encodings json.Marshal has produced for it
    seeds      \* per operation, the map iteration starts those encodings were made under

\* what no step of ApplyHasuraMetadata changes
others == <<endpoint, script, marshalled, seeds>>

vars == <<pc, url, calls, outcomes, resp, err, result, warnings, runs, remote, previous, others>>

\* ------------------------------------------------------------------ bounds

\* Invocations of ApplyHasuraMetadata in one behaviour.
MaxRuns == 3

\* Go leaves the iteration order of a map unspecified: the orders tried are
\* the literal order of the entries rotated by 0..MaxStart-1 places.
MaxStart == 2

\* ------------------------------------------------------- program constants

timeout == 10
StatusOK == 200

hasuraSecret == "secret"

\* ------------------------------------------------------------ JSON bodies
\* A response body is modelled by its JSON structure.  A member of an object
\* is absent, null, a number or a string; only the three members that
\* hasuraErrResponse names are kept.

Absent == [t |-> "absent", s |-> ""]
Null == [t |-> "null", s |-> ""]
Number == [t |-> "number", s |-> ""]
Str(s) == [t |-> "string", s |-> s]

\* kind "empty": no bytes; "text": bytes that are not JSON; the others are
\* the JSON values null, an array, a string, a number, an object.
Plain(kind) == [kind |-> kind, path |-> Absent, error |-> Absent, code |-> Absent]
Object(path, error, code) == [kind |-> "object", path |-> path, error |-> error, code |-> code]

NoBody == Plain("none")

CodeMembers ==
    {Absent, Null, Number, Str(""), Str("already-tracked"), Str("already-exists"),
     Str("not-exists"), Str("Already-Tracked")}
ErrorMembers == {Absent, Number, Str("relation does not exist")}

Bodies ==
    {Plain(k) : k \in {"empty", "text", "null", "array", "string", "number"}}
    \cup {Object(Absent, e, c) : e \in ErrorMembers, c \in CodeMembers}
    \cup {Object(Str("$.args"), Str("already tracked"), Str("already-tracked"))}

Statuses == {200, 201, 204, 400, 500}

\* What client.Do gives: a transport failure (network error or the client's
\* timeout), or a response with a status and a body.
Answer(transport, status, body) == [transport |-> transport, status |-> status, body |-> body]
NoResponse == Answer("none", 0, NoBody)
Responses ==
    {Answer(t, 0, NoBody) : t \in {"error", "timeout"}}
    \cup {Answer("ok", s, b) : s \in Statuses, b \in Bodies}

\* ----------------------------------------------------------- error values

Err(kind, status, response, cause) ==
    [kind |-> kind, status |-> status, response |-> response, cause |-> cause]
NilErr == Err("nil", 0, NoBody, "none")
\* a nil pointer dereference ends the goroutine: no value is returned
Panic == Err("panic", 0, NoBody, "nil pointer dereference")

\* mutant: the error names the status code and drops the body
StatusErrorNoBody(status, b) == Err("status", status, NoBody, "none")

\* fmt.Errorf("status_code: %d\nresponse: %s", resp.StatusCode, b)
StatusError(status, b) == Err("status", status, b, "none")

\* ------------------------------------------------------------ postMetadata

\* json.Unmarshal(b, &errResponse) with errResponse a *hasuraErrResponse:
\* err says whether it returned an error, and ptr is errResponse afterwards.
\* A string member is stored, an absent or null member leaves "", a member
\* of another type is an UnmarshalTypeError; JSON null sets the pointer nil
\* and is no error; bytes that are not JSON are a SyntaxError; any other
\* JSON value is an UnmarshalTypeError.
Field(m) == IF m.t = "string" THEN m.s ELSE ""
Unmarshal(b) ==
    IF b.kind = "null" THEN [err |-> FALSE, isNil |-> TRUE, Path |-> "", Error |-> "", Code |-> ""]
    ELSE IF b.kind = "object" /\ b.path.t # "number" /\ b.error.t # "number" /\ b.code.t # "number"
    THEN [err |-> FALSE, isNil |-> FALSE,
          Path |-> Field(b.path), Error |-> Field(b.error), Code |-> Field(b.code)]
    ELSE [err |-> TRUE, isNil |-> b.kind # "object", Path |-> "", Error |-> "", Code |-> ""]

\* mutant: only already-tracked is taken as applied
IsIdempotencyCodeTrackedOnly(code) == code = "already-tracked"

\* mutant: an error object without a code is taken as applied too
IsIdempotencyCodeOrEmpty(code) == code = "" \/ code = "already-tracked" \/ code = "already-exists"

\* errResponse.Code == "already-tracked" || errResponse.Code == "already-exists"
IsIdempotencyCode(code) == code = "already-tracked" \/ code = "already-exists"

\* mutant: every 2xx status is taken as success
IsErrorStatusOutside2xx(status) == status < 200 \/ status > 299

\* resp.StatusCode != http.StatusOK
IsErrorStatus(status) == status # StatusOK

\* http.NewRequestWithContext fails on a URL that does not parse
URLs == {"http://graphql-engine:8080/v1", "://graphql-engine"}
ValidURL(u) == u # "://graphql-engine"

Request(baseURL, secret, data) ==
    [method |-> "POST", base |-> baseURL, path |-> "/metadata", secret |-> secret, data |-> data]

\* mutant: errResponse is kept between calls, so a body without a code is
\* read with the code the previous call decoded
ClassifyRetained(r) ==
    IF IsErrorStatus(r.status)
    THEN LET u == Unmarshal(r.body)
             code == IF r.body.code.t \in {"absent", "null"}
                     THEN Field(resp.body.code) ELSE u.Code IN
         IF u.err THEN StatusError(r.status, r.body)
         ELSE IF u.isNil THEN Panic
         ELSE IF IsIdempotencyCode(code) THEN NilErr
         ELSE StatusError(r.status, r.body)
    ELSE NilErr

\* The status branch of postMetadata
Classify(r) ==
    IF IsErrorStatus(r.status)
    THEN LET u == Unmarshal(r.body) IN
         IF u.err THEN StatusError(r.status, r.body)
         ELSE IF u.isNil THEN Panic
         ELSE IF IsIdempotencyCode(u.Code) THEN NilErr
         ELSE StatusError(r.status, r.body)
    ELSE NilErr

\* mutant: a failed client.Do is tried once more
postMetadataRetry(baseURL, secret, data, r) ==
    IF ~ValidURL(baseURL)
    THEN [posts |-> <<>>, ret |-> Err("request", 0, NoBody, "parse")]
    ELSE IF r.transport # "ok"
    THEN [posts |-> <<Request(baseURL, secret, data), Request(baseURL, secret, data)>>,
          ret |-> Err("execute", 0, NoBody, r.transport)]
    ELSE [posts |-> <<Request(baseURL, secret, data)>>, ret |-> Classify(r)]

\* postMetadata with r what client.Do gives: the POSTs it issues and what
\* it returns.  json.Marshal cannot fail on the struct types submitted.
postMetadata(baseURL, secret, data, r) ==
    IF ~ValidURL(baseURL)
    THEN [posts |-> <<>>, ret |-> Err("request", 0, NoBody, "parse")]
    ELSE IF r.transport # "ok"
    THEN [posts |-> <<Request(baseURL, secret, data)>>, ret |-> Err("execute", 0, NoBody, r.transport)]
    ELSE [posts |-> <<Request(baseURL, secret, data)>>, ret |-> Classify(r)]

\* -------------------------------------------------------------- operations
\* The five request payloads ApplyHasuraMetadata builds.

Table(schema, name) == [schema |-> schema, name |-> name]

bucketsTable ==
    [type |-> "pg_track_table",
     args |-> [source |-> "default",
               table |-> Table("storage", "buckets"),
               configuration |->
                 [custom_name |-> "buckets",
                  custom_root_fields |->
                    [select |-> "buckets", select_by_pk |-> "bucket",
                     select_aggregate |-> "bucketsAggregate",
                     insert |-> "insertBuckets", insert_one |-> "insertBucket",
                     update |-> "updateBuckets", update_by_pk |-> "updateBucket",
                     delete |-> "deleteBuckets", delete_by_pk |-> "deleteBucket"],
                  custom_column_names |->
                    [id |-> "id", created_at |-> "createdAt", updated_at |-> "updatedAt",
                     download_expiration |-> "downloadExpiration",
                     min_upload_file_size |-> "minUploadFileSize",
                     max_upload_file_size |-> "maxUploadFileSize",
                     cache_control |-> "cacheControl",
                     presigned_urls_enabled |-> "presignedUrlsEnabled"]]]]

filesTable ==
    [type |-> "pg_track_table",
     args |-> [source |-> "default",
               table |-> Table("storage", "files"),
               configuration |->
                 [custom_name |-> "files",
                  custom_root_fields |->
                    [select |-> "files", select_by_pk |-> "file",
                     select_aggregate |-> "filesAggregate",
                     insert |-> "insertFiles", insert_one |-> "insertFile",
                     update |-> "updateFiles", update_by_pk |-> "updateFile",
                     delete |-> "deleteFiles", delete_by_pk |-> "deleteFile"],
                  custom_column_names |->
                    [id |-> "id", created_at |-> "createdAt", updated_at |-> "updatedAt",
                     bucket_id |-> "bucketId", name |-> "name", size |-> "size",
                     mime_type |-> "mimeType", etag |-> "etag",
                     is_uploaded |-> "isUploaded",
                     uploaded_by_user_id |-> "uploadedByUserId"]]]]

objRelationshipBuckets ==
    [type |-> "pg_create_object_relationship",
     args |-> [table |-> Table("storage", "files"),
               name |-> "bucket",
               source |-> "default",
               using |-> [foreign_key_constraint_on |-> <<"bucket_id">>]]]

arrRelationship ==
    [type |-> "pg_create_array_relationship",
     args |-> [table |-> Table("storage", "buckets"),
               name |-> "files",
               source |-> "default",
               using |-> [foreign_key_constraint_on |->
                            [table |-> Table("storage", "files"),
                             columns |-> <<"bucket_id">>]]]]

objRelationshipUser ==
    [type |-> "pg_create_object_relationship",
     args |-> [table |-> Table("storage", "files"),
               name |-> "uploadedByUser",
               source |-> "default",
               using |-> [foreign_key_constraint_on |-> <<"uploaded_by_user_id">>]]]

\* ------------------------------------------------------------ json.Marshal
\* The encoding of a payload as the sequence of its tokens.  A struct is
\* written as its members in declaration order under their json names; a
\* map[string]string is written with its entries sorted by key, whatever
\* order the runtime yields them in.

RECURSIVE Join(_)
Join(parts) ==
    IF parts = <<>> THEN <<>>
    ELSE IF Len(parts) = 1 THEN parts[1]
    ELSE parts[1] \o <<",">> \o Join(Tail(parts))

EncString(s) == <<"\"", s, "\"">>
EncStrings(ss) == <<"[">> \o Join([i \in DOMAIN ss |-> EncString(ss[i])]) \o <<"]">>
Member(k, v) == EncString(k) \o <<":">> \o v
EncObject(members) == <<"{">> \o Join(members) \o <<"}">>

\* the entries of the CustomColumnNames literals, in the order written
bucketsColumns ==
    <<"id", "created_at", "updated_at", "download_expiration", "min_upload_file_size",
      "max_upload_file_size", "cache_control", "presigned_urls_enabled">>
filesColumns ==
    <<"id", "created_at", "updated_at", "bucket_id", "name", "size", "mime_type", "etag",
      "is_uploaded", "uploaded_by_user_id">>

\* the order in which ranging over the map yields its keys, from a start
\* the runtime picks
Rotate(keys, start) ==
    [i \in DOMAIN keys |-> keys[((i - 1 + start) % Len(keys)) + 1]]
MapRange(data, start) ==
    IF data.type # "pg_track_table" THEN <<>>
    ELSE IF data.args.table.name = "buckets" THEN Rotate(bucketsColumns, start)
    ELSE Rotate(filesColumns, start)

\* the column names in the byte order of Go's string comparison
ByteOrder ==
    <<"bucket_id", "cache_control", "created_at", "download_expiration", "etag", "id",
      "is_uploaded", "max_upload_file_size", "mime_type", "min_upload_file_size", "name",
      "presigned_urls_enabled", "size", "updated_at", "uploaded_by_user_id">>

\* mutant: the entries are written in the order the map yields them
SortKeysNot(keys) == keys

\* encoding/json sorts the keys of a map before it writes the entries
SortKeys(keys) ==
    SelectSeq(ByteOrder, LAMBDA k : \E i \in DOMAIN keys : keys[i] = k)

EncMap(m, yielded) ==
    LET keys == SortKeys(yielded) IN
    EncObject([i \in DOMAIN keys |-> Member(keys[i], EncString(m[keys[i]]))])

EncTable(t) ==
    EncObject(<<Member("schema", EncString(t.schema)), Member("name", EncString(t.name))>>)

EncCustomRootFields(f) ==
    EncObject(<<Member("select", EncString(f.select)),
                Member("select_by_pk", EncString(f.select_by_pk)),
                Member("select_aggregate", EncString(f.select_aggregate)),
                Member("insert", EncString(f.insert)),
                Member("insert_one", EncString(f.insert_one)),
                Member("update", EncString(f.update)),
                Member("update_by_pk", EncString(f.update_by_pk)),
                Member("delete", EncString(f.delete)),
                Member("delete_by_pk", EncString(f.delete_by_pk))>>)

EncConfiguration(c, yielded) ==
    EncObject(<<Member("custom_name", EncString(c.custom_name)),
                Member("custom_root_fields", EncCustomRootFields(c.custom_root_fields)),
                Member("custom_column_names", EncMap(c.custom_column_names, yielded))>>)

EncTrackTable(d, yielded) ==
    EncObject(<<Member("type", EncString(d.type)),
                Member("args",
                    EncObject(<<Member("source", EncString(d.args.source)),
                                Member("table", EncTable(d.args.table)),
                                Member("configuration",
                                       EncConfiguration(d.args.configuration, yielded))>>))>>)

EncRelationship(d, using) ==
    EncObject(<<Member("type", EncString(d.type)),
                Member("args",
                    EncObject(<<Member("table", EncTable(d.args.table)),
                                Member("name", EncString(d.args.name)),
                                Member("source", EncString(d.args.source)),
                                Member("using",
                                    EncObject(<<Member("foreign_key_constraint_on", using)>>))>>))>>)

EncCreateObjectRelationship(d) ==
    EncRelationship(d, EncStrings(d.args.using.foreign_key_constraint_on))

EncCreateArrayRelationship(d) ==
    EncRelationship(d,
        EncObject(<<Member("table", EncTable(d.args.using.foreign_key_constraint_on.table)),
                    Member("columns", EncStrings(d.args.using.foreign_key_constraint_on.columns))>>))

\* json.Marshal(data), with yielded the order in which the runtime yields
\* the keys of the map in data (none in a relationship)
Marshal(data, yielded) ==
    IF data.type = "pg_track_table" THEN EncTrackTable(data, yielded)
    ELSE IF data.type = "pg_create_object_relationship" THEN EncCreateObjectRelationship(data)
    ELSE EncCreateArrayRelationship(data)

\* ------------------------------------------------------------ the endpoint
\* The remote metadata API is outside the repository.  As "any" it answers
\* each call with any member of Responses.  As "idempotent" it is the store
\* the design relies on: it applies an operation it has not applied and
\* answers 200, and answers an operation it has applied with a non-200
\* error object whose code is already-tracked or already-exists.  As
\* "scripted" it answers the n-th call of every invocation with script[n].

Key(data) ==
    <<data.type, data.args.table.name,
      IF data.type = "pg_track_table" THEN "" ELSE data.args.name>>

AppliedBodies == {Plain("empty"), Object(Absent, Absent, Absent)}
ConflictBodies ==
    {b \in Bodies : /\ b.kind = "object"
                    /\ b.error.t # "number"
                    /\ b.code \in {Str("already-tracked"), Str("already-exists")}}
IdempotentAnswers(data) ==
    IF Key(data) \in remote
    THEN {Answer("ok", s, b) : s \in Statuses \ {200}, b \in ConflictBodies}
    ELSE {Answer("ok", 200, b) : b \in AppliedBodies}

Endpoint(data) ==
    IF endpoint = "idempotent" THEN IdempotentAnswers(data)
    ELSE IF endpoint = "scripted" THEN {script[Len(outcomes) + 1]}
    ELSE Responses

\* the store after it answered r to the posts of one postMetadata call
Store(data, posts, r) ==
    IF endpoint = "idempotent" /\ posts # <<>> /\ r.transport = "ok" /\ r.status = 200
    THEN remote \cup {Key(data)}
    ELSE remote

\* ------------------------------------------------------ ApplyHasuraMetadata

\* The outcome of one postMetadata call in the words of the design: Applied
\* (nil after a 200), AlreadyApplied (nil after another status), Failed (an
\* error), Panicked (no return).  answer is the class of what client.Do gave.
AnswerClass(posts, r) ==
    IF posts = <<>> \/ r.transport # "ok" THEN "none"
    ELSE IF r.status = StatusOK THEN "200" ELSE "non-200"
Outcome(posts, r, ret) ==
    IF ret.kind = "panic" THEN "Panicked"
    ELSE IF ret.kind # "nil" THEN "Failed"
    ELSE IF AnswerClass(posts, r) = "200" THEN "Applied" ELSE "AlreadyApplied"
Entry(data, p, r) ==
    [op |-> data, answer |-> AnswerClass(p.posts, r), outcome |-> Outcome(p.posts, r, p.ret)]

NoResult == [kind |-> "none", context |-> "", cause |-> NilErr]
Success == [kind |-> "nil", context |-> "", cause |-> NilErr]
\* fmt.Errorf(context + ": %w", err)
Wrap(context, e) == [kind |-> "error", context |-> context, cause |-> e]
Panicked == [kind |-> "panic", context |-> "", cause |-> Panic]

\* logger.Warnf("problem creating object relationship for users: %s", err)
Warnf(msg, e) == [level |-> "warning", msg |-> msg, err |-> e]

\* what an invocation that has ended did
Done(u, c, res) == [set |-> TRUE, url |-> u, calls |-> c, result |-> res]
NoPrevious == [set |-> FALSE, url |-> "", calls |-> <<>>, result |-> NoResult]

\* Before the first invocation, against an endpoint of the given kind
Start(kind, answers) ==
    /\ pc = "idle"
    /\ url = "http://graphql-engine:8080/v1"
    /\ calls = <<>>
    /\ outcomes = <<>>
    /\ resp = NoResponse
    /\ err = NilErr
    /\ result = NoResult
    /\ warnings = <<>>
    /\ runs = 0
    /\ endpoint = kind
    /\ remote = {}
    /\ script = answers
    /\ previous = NoPrevious
    /\ marshalled = [i \in 1..5 |-> {}]
    /\ seeds = [i \in 1..5 |-> {}]

Init == Start("any", <<>>)

\* A caller invokes ApplyHasuraMetadata(url, hasuraSecret, logger); nothing
\* is kept from an earlier invocation.
Invoke ==
    /\ pc \in {"idle", "returned", "panicked"}
    /\ runs < MaxRuns
    /\ runs' = runs + 1
    /\ url' \in URLs
    /\ pc' = "bucketsTable"
    /\ calls' = <<>>
    /\ outcomes' = <<>>
    /\ resp' = NoResponse
    /\ err' = NilErr
    /\ result' = NoResult
    /\ warnings' = <<>>
    /\ previous' = IF endpoint = "scripted" /\ pc # "idle"
                   THEN Done(url, calls, result)
                   ELSE previous
    /\ UNCHANGED <<remote, others>>

\* mutant: the error of a required operation is dropped and the sequence goes on
RequiredLenient(here, data, context, next) ==
    /\ pc = here
    /\ \E r \in Endpoint(data) :
         LET p == postMetadata(url, hasuraSecret, data, r) IN
         /\ calls' = calls \o p.posts
         /\ outcomes' = Append(outcomes, Entry(data, p, r))
         /\ resp' = IF p.posts = <<>> THEN NoResponse ELSE r
         /\ err' = p.ret
         /\ remote' = Store(data, p.posts, r)
         /\ IF p.ret.kind = "panic"
            THEN pc' = "panicked" /\ result' = Panicked
            ELSE pc' = next /\ result' = result
    /\ UNCHANGED <<url, warnings, runs, previous, others>>

\* if err := postMetadata(url, hasuraSecret, data); err != nil {
\*     return fmt.Errorf(context + ": %w", err) }
Required(here, data, context, next) ==
    /\ pc = here
    /\ \E r \in Endpoint(data) :
         LET p == postMetadata(url, hasuraSecret, data, r) IN
         /\ calls' = calls \o p.posts
         /\ outcomes' = Append(outcomes, Entry(data, p, r))
         /\ resp' = IF p.posts = <<>> THEN NoResponse ELSE r
         /\ err' = p.ret
         /\ remote' = Store(data, p.posts, r)
         /\ IF p.ret.kind = "panic"
            THEN pc' = "panicked" /\ result' = Panicked
            ELSE IF p.ret.kind # "nil"
            THEN pc' = "returned" /\ result' = Wrap(context, p.ret)
            ELSE pc' = next /\ result' = result
    /\ UNCHANGED <<url, warnings, runs, previous, others>>

\* mutant: the error of the last operation is returned like the others
BestEffortStrict(here, data, msg) ==
    /\ pc = here
    /\ \E r \in Endpoint(data) :
         LET p == postMetadata(url, hasuraSecret, data, r) IN
         /\ calls' = calls \o p.posts
         /\ outcomes' = Append(outcomes, Entry(data, p, r))
         /\ resp' = IF p.posts = <<>> THEN NoResponse ELSE r
         /\ err' = p.ret
         /\ remote' = Store(data, p.posts, r)
         /\ IF p.ret.kind = "panic"
            THEN pc' = "panicked" /\ result' = Panicked
            ELSE /\ pc' = "returned"
                 /\ result' = IF p.ret.kind # "nil" THEN Wrap(msg, p.ret) ELSE Success
    /\ UNCHANGED <<url, warnings, runs, previous, others>>

\* if err := postMetadata(url, hasuraSecret, data); err != nil {
\*     logger.Warnf(msg, err) }
\* return nil
BestEffort(here, data, msg) ==
    /\ pc = here
    /\ \E r \in Endpoint(data) :
         LET p == postMetadata(url, hasuraSecret, data, r) IN
         /\ calls' = calls \o p.posts
         /\ outcomes' = Append(outcomes, Entry(data, p, r))
         /\ resp' = IF p.posts = <<>> THEN NoResponse ELSE r
         /\ err' = p.ret
         /\ remote' = Store(data, p.posts, r)
         /\ IF p.ret.kind = "panic"
            THEN pc' = "panicked" /\ result' = Panicked /\ warnings' = warnings
            ELSE /\ pc' = "returned"
                 /\ result' = Success
                 /\ warnings' = IF p.ret.kind # "nil"
                                THEN Append(warnings, Warnf(msg, p.ret))
                                ELSE warnings
    /\ UNCHANGED <<url, runs, previous, others>>

\* mutant: the files table is not tracked
PostBucketsTableSkipsFiles ==
    Required("bucketsTable", bucketsTable,
             "problem adding metadata for the buckets table", "objRelationshipBuckets")

PostBucketsTable ==
    Required("bucketsTable", bucketsTable,
             "problem adding metadata for the buckets table", "filesTable")

\* mutant: the second call reports its failure under the first call's message
PostFilesTableBucketsContext ==
    Required("filesTable", filesTable,
             "problem adding metadata for the buckets table", "objRelationshipBuckets")

PostFilesTable ==
    Required("filesTable", filesTable,
             "problem adding metadata for the files table", "objRelationshipBuckets")

\* mutant: the third call submits the array relationship's payload
PostObjRelationshipBucketsWrongPayload ==
    Required("objRelationshipBuckets", arrRelationship,
             "problem creaiing object relationship for buckets", "arrRelationship")

PostObjRelationshipBuckets ==
    Required("objRelationshipBuckets", objRelationshipBuckets,
             "problem creaiing object relationship for buckets", "arrRelationship")

PostArrRelationship ==
    Required("arrRelationship", arrRelationship,
             "problem creating array relationships", "objRelationshipUser")

PostObjRelationshipUser ==
    BestEffort("objRelationshipUser", objRelationshipUser,
               "problem creating object relationship for users")

Next ==
    \/ Invoke
    \/ PostBucketsTable
    \/ PostFilesTable
    \/ PostObjRelationshipBuckets
    \/ PostArrRelationship
    \/ PostObjRelationshipUser

Spec == Init /\ [][Next]_vars

\* json.Marshal alone: one of the five payloads is encoded, under an
\* iteration start the runtime picks.
Payloads ==
    <<bucketsTable, filesTable, objRelationshipBuckets, arrRelationship, objRelationshipUser>>
MarshalPayload ==
    /\ \E i \in 1..5 : \E start \in 0..(MaxStart - 1) :
          /\ marshalled' = [marshalled EXCEPT
                              ![i] = @ \cup {Marshal(Payloads[i], MapRange(Payloads[i], start))}]
          /\ seeds' = [seeds EXCEPT ![i] = @ \cup {start}]
    /\ UNCHANGED <<pc, url, calls, outcomes, resp, err, result, warnings, runs,
                   remote, previous, endpoint, script>>

NextMarshal == MarshalPayload
SpecMarshal == Init /\ [][NextMarshal]_vars

\* The same program against an endpoint that gives every invocation the
\* same answers: script[n] to its n-th call.
ScriptAnswers ==
    {Answer("timeout", 0, NoBody),
     Answer("ok", 200, Object(Absent, Str("relation does not exist"), Str("not-exists"))),
     Answer("ok", 400, Object(Absent, Absent, Str("already-exists"))),
     Answer("ok", 500, Object(Absent, Str("relation does not exist"), Absent)),
     Answer("ok", 204, Plain("null"))}
InitScripted == \E answers \in [1..5 -> ScriptAnswers] : Start("scripted", answers)
SpecScripted == InitScripted /\ [][Next]_vars

\* The same program against the idempotent remote store
InitIdempotent == Start("idempotent", <<>>)
SpecIdempotent == InitIdempotent /\ [][Next]_vars

TypeOK ==
    /\ pc \in {"idle", "bucketsTable", "filesTable", "objRelationshipBuckets",
               "arrRelationship", "objRelationshipUser", "returned", "panicked"}
    /\ url \in URLs
    /\ runs \in 0..MaxRuns
    /\ resp \in Responses \cup {NoResponse}
    /\ Len(calls) <= Len(outcomes)

\* ------------------------------------------------------------------ claims

FixedOrder ==
    <<bucketsTable, filesTable, objRelationshipBuckets, arrRelationship, objRelationshipUser>>
Issued == [i \in DOMAIN calls |-> calls[i].data]
Advanced(o) == o \in {"Applied", "AlreadyApplied"}
Latest == outcomes[Len(outcomes)]
AllAnswered200 == \A i \in DOMAIN outcomes : outcomes[i].answer = "200"

\* C1: while every call of an invocation has been answered HTTP 200, the
\* POSTs issued are exactly the first operations of the fixed order (buckets
\* track, files track, files.bucket, buckets.files, files.uploadedByUser),
\* one per call and nothing else, and an invocation that has returned has
\* returned nil after exactly 5 POSTs.
C1_AllOkFivePostsInOrder ==
    AllAnswered200 =>
        /\ Issued = SubSeq(FixedOrder, 1, Len(outcomes))
        /\ \A i \in DOMAIN calls : calls[i].method = "POST" /\ calls[i].path = "/metadata"
        /\ pc # "panicked"
        /\ pc = "returned" => result = Success /\ Len(calls) = 5

C1_Witness == pc = "returned" /\ Len(outcomes) = 5 /\ AllAnswered200 /\ result = Success

\* C2: if the submission of one of the first four operations Failed, the
\* invocation has returned an error, that submission is its last one, and no
\* POST of a later operation has been issued.
C2_RequiredFailureAborts ==
    \A k \in DOMAIN outcomes :
        (k <= 4 /\ outcomes[k].outcome = "Failed") =>
            /\ pc = "returned"
            /\ result.kind = "error"
            /\ Len(outcomes) = k
            /\ Len(calls) <= k
            /\ \A i \in DOMAIN calls : \E j \in 1..k : calls[i].data = FixedOrder[j]

C2_Witness ==
    /\ pc = "returned" /\ Len(outcomes) = 2 /\ Len(calls) = 2
    /\ outcomes[2].outcome = "Failed" /\ resp.status = 500
    /\ result.kind = "error"

\* C3: a non-200 answer whose body decodes to an error object with code
\* already-tracked or already-exists makes postMetadata return nil and the
\* invocation go on to the next operation (or return nil after the fifth);
\* an invocation in which every call was answered 200 or in this way
\* returns nil.
IdempotentAnswer(r) ==
    /\ r.transport = "ok" /\ r.status # 200
    /\ r.body.kind = "object"
    /\ r.body.path.t # "number" /\ r.body.error.t # "number"
    /\ r.body.code \in {Str("already-tracked"), Str("already-exists")}
PositionAfter(n) ==
    IF n = 0 THEN "bucketsTable"
    ELSE IF n = 1 THEN "filesTable"
    ELSE IF n = 2 THEN "objRelationshipBuckets"
    ELSE IF n = 3 THEN "arrRelationship"
    ELSE IF n = 4 THEN "objRelationshipUser"
    ELSE "returned"
C3_IdempotentCodesAdvance ==
    /\ IdempotentAnswer(resp) =>
          /\ err = NilErr
          /\ Latest.outcome = "AlreadyApplied"
          /\ pc = PositionAfter(Len(outcomes))
          /\ pc = "returned" => result = Success
    /\ (pc = "returned" /\ \A i \in DOMAIN outcomes : outcomes[i].answer # "none"
                                                     /\ Advanced(outcomes[i].outcome))
          => result = Success /\ Len(outcomes) = 5

C3_Witness ==
    /\ pc = "returned" /\ result = Success /\ Len(outcomes) = 5
    /\ outcomes[1].outcome = "AlreadyApplied" /\ outcomes[2].outcome = "Applied"
    /\ outcomes[4].outcome = "AlreadyApplied"
    /\ IdempotentAnswer(resp) /\ resp.status = 400

\* C4: when the fifth submission Failed (the first four did not), the
\* invocation returns nil and has logged exactly one warning, the one about
\* the relationship for users, carrying the error; when the fifth
\* submission did not fail, and at every earlier point, nothing is logged.
C4_BestEffortFailureWarns ==
    /\ (Len(outcomes) = 5 /\ outcomes[5].outcome = "Failed") =>
          /\ pc = "returned"
          /\ result = Success
          /\ warnings = <<Warnf("problem creating object relationship for users", err)>>
          /\ err.kind \in {"execute", "status"}
    /\ (Len(outcomes) = 5 /\ Advanced(outcomes[5].outcome)) =>
          pc = "returned" /\ result = Success /\ warnings = <<>>
    /\ Len(outcomes) < 5 => warnings = <<>>

C4_Witness ==
    /\ pc = "returned" /\ Len(outcomes) = 5 /\ outcomes[5].outcome = "Failed"
    /\ resp.transport = "ok" /\ resp.body.kind = "text"
    /\ Len(warnings) = 1 /\ result = Success

\* C5: an invocation that has ended returned nil if and only if each of the
\* first four submissions was Applied or AlreadyApplied.
C5_SuccessIffRequiredApplied ==
    pc \in {"returned", "panicked"} =>
        (result = Success <=>
            (Len(outcomes) >= 4 /\ \A k \in 1..4 : Advanced(outcomes[k].outcome)))

C5_FailingInput ==
    /\ pc = "panicked" /\ Len(outcomes) = 5
    /\ \A k \in 1..4 : outcomes[k].outcome = "Applied"
    /\ resp = Answer("ok", 500, Plain("null"))

\* C6: after a non-200 answer whose body json.Unmarshal rejects (no bytes,
\* bytes that are not JSON, a JSON value that is not an object, a member of
\* the wrong type), postMetadata has returned an error that carries the
\* status code of the answer and its body unchanged.
Unparsable(b) ==
    \/ b.kind \in {"empty", "text", "array", "string", "number"}
    \/ b.kind = "object" /\ "number" \in {b.path.t, b.error.t, b.code.t}
C6_UnparsableBodyFails ==
    (resp.transport = "ok" /\ resp.status # 200 /\ Unparsable(resp.body)) =>
        /\ err.kind = "status"
        /\ err.status = resp.status
        /\ err.response = resp.body
        /\ Latest.outcome = "Failed"

C6_Witness ==
    /\ resp = Answer("ok", 500, Plain("text"))
    /\ err.kind = "status" /\ err.status = 500 /\ err.response = Plain("text")

\* C7: after a non-200 answer whose body decodes to an error object whose
\* code is neither already-tracked nor already-exists (absent, null and
\* empty codes included), postMetadata has returned an error, not nil, and
\* the error carries the status code and the path, error and code of the
\* body.
OtherCodeAnswer(r) ==
    /\ r.transport = "ok" /\ r.status # 200
    /\ r.body.kind = "object"
    /\ "number" \notin {r.body.path.t, r.body.error.t, r.body.code.t}
    /\ r.body.code \notin {Str("already-tracked"), Str("already-exists")}
C7_OtherCodeFails ==
    OtherCodeAnswer(resp) =>
        /\ err.kind = "status"
        /\ Latest.outcome = "Failed"
        /\ err.status = resp.status
        /\ err.response.code = resp.body.code
        /\ err.response.error = resp.body.error
        /\ err.response.path = resp.body.path

C7_Witness ==
    /\ OtherCodeAnswer(resp) /\ resp.body.code = Str("")
    /\ resp.body.error = Str("relation does not exist")
    /\ err.kind = "status" /\ Latest.outcome = "Failed"

\* C8: after an answer with status 200 postMetadata has returned nil
\* whatever the body is, and after an answer with any other status (201 and
\* 204 included) it has returned nil only if the body decodes to an error
\* object with code already-tracked or already-exists.
C8_Only200IsSuccess ==
    /\ (resp.transport = "ok" /\ resp.status = 200) =>
          err = NilErr /\ Latest.outcome = "Applied"
    /\ (resp.transport = "ok" /\ resp.status # 200 /\ err = NilErr) =>
          IdempotentAnswer(resp) /\ Latest.outcome = "AlreadyApplied"

C8_Witness ==
    /\ resp = Answer("ok", 200, Object(Absent, Str("relation does not exist"), Str("not-exists")))
    /\ err = NilErr /\ Latest.outcome = "Applied"

\* C9: an invocation has issued at most one POST per postMetadata call and
\* no operation twice, and a transport failure or timeout of client.Do has
\* made postMetadata return an error that names it, after which nothing
\* more is submitted.
C9_NoRetry ==
    /\ Len(calls) <= Len(outcomes)
    /\ \A i, j \in DOMAIN calls : calls[i].data = calls[j].data => i = j
    /\ \A i, j \in DOMAIN outcomes : outcomes[i].op = outcomes[j].op => i = j
    /\ resp.transport \in {"error", "timeout"} =>
          /\ err.kind = "execute" /\ err.cause = resp.transport
          /\ Latest.outcome = "Failed"
          /\ pc = "returned"

C9_Witness ==
    /\ resp.transport = "timeout" /\ Len(outcomes) = 3 /\ Len(calls) = 3
    /\ Latest.outcome = "Failed" /\ pc = "returned"

\* C10: every relationship request issued comes after the track-table
\* request of each storage table it references (the table it is created on
\* and, for the array relationship, the table of its foreign key), and the
\* submission of that track-table request was Applied or AlreadyApplied.
IsRelationship(d) ==
    d.type \in {"pg_create_object_relationship", "pg_create_array_relationship"}
ReferencedTables(d) ==
    IF d.type = "pg_create_array_relationship"
    THEN {d.args.table, d.args.using.foreign_key_constraint_on.table}
    ELSE IF d.type = "pg_create_object_relationship"
    THEN {d.args.table}
    ELSE {}
Tracks(d, t) == d.type = "pg_track_table" /\ d.args.table = t
C10_TrackedBeforeRelated ==
    \A i \in DOMAIN calls :
        \A t \in ReferencedTables(calls[i].data) :
            \E j \in 1..(i - 1) :
                /\ Tracks(calls[j].data, t)
                /\ \E k \in DOMAIN outcomes :
                      outcomes[k].op = calls[j].data /\ Advanced(outcomes[k].outcome)

C10_Witness ==
    /\ Len(calls) = 5
    /\ \A i \in 3..5 : IsRelationship(calls[i].data)
    /\ outcomes[1].outcome = "AlreadyApplied" /\ outcomes[2].outcome = "Applied"

\* C11: against the idempotent remote store every invocation given a usable
\* url returns nil without a warning and none panics, whatever number of
\* invocations came before; an invocation that returned nil leaves the
\* store holding the five operations, and once it holds them no later call
\* changes it.
AllApplied == {Key(FixedOrder[i]) : i \in 1..5}
C11_Repeatable ==
    /\ pc # "panicked"
    /\ (pc = "returned" /\ ValidURL(url)) => result = Success /\ warnings = <<>>
    /\ (pc = "returned" /\ result = Success) => remote = AllApplied
C11_StoreUnchanged == [][remote = AllApplied => remote' = remote]_vars
C11_RepeatedRunsSucceed == []C11_Repeatable /\ C11_StoreUnchanged

C11_Witness ==
    /\ runs = MaxRuns /\ pc = "returned" /\ result = Success
    /\ \A i \in 1..5 : outcomes[i].outcome = "AlreadyApplied"
    /\ remote = AllApplied

\* C12: every encoding json.Marshal has produced for one payload (track
\* table, object relationship, array relationship) is the same sequence of
\* bytes, whatever order the runtime yielded the column-name map in.
C12_MarshalDeterministic ==
    \A i \in 1..5 : Cardinality(marshalled[i]) <= 1

C12_Witness ==
    /\ \A i \in 1..5 : Cardinality(seeds[i]) >= 2 /\ Cardinality(marshalled[i]) = 1
    /\ MapRange(bucketsTable, 0) # MapRange(bucketsTable, 1)

\* C13: the operations are submitted in index order, none skipped or
\* submitted again, at most 5 in all; an invocation that has ended has
\* ended Done (nil returned, after the fifth submission) or Aborted (an
\* error returned) and not both; and it is Aborted only when its last
\* submission is one of the first four and Failed, all earlier ones having
\* been Applied or AlreadyApplied.
Ended == pc \in {"returned", "panicked"}
EndedDone == result = Success
EndedAborted == result.kind = "error"
C13_Linear ==
    /\ Len(outcomes) <= 5
    /\ \A i \in DOMAIN outcomes : outcomes[i].op = FixedOrder[i]
    /\ \A i \in DOMAIN outcomes : i < Len(outcomes) => Advanced(outcomes[i].outcome)
    /\ ~Ended /\ pc # "idle" => pc = PositionAfter(Len(outcomes))
    /\ EndedDone => Len(outcomes) = 5 /\ Latest.outcome # "Panicked"
    /\ EndedAborted => Len(outcomes) <= 4 /\ Latest.outcome = "Failed"
C13_LinearStateMachine ==
    /\ C13_Linear
    /\ Ended => (EndedDone \/ EndedAborted) /\ ~(EndedDone /\ EndedAborted)

\* the part of C13 that holds: every invocation that returns
C13_ReturnedRunsLinear ==
    /\ C13_Linear
    /\ pc = "returned" => (EndedDone \/ EndedAborted) /\ ~(EndedDone /\ EndedAborted)

C13_FailingInput ==
    /\ pc = "panicked" /\ Len(outcomes) = 3
    /\ resp = Answer("ok", 400, Plain("null"))
    /\ ~EndedDone /\ ~EndedAborted

\* C14: an invocation that returned an error after k submissions returned
\* the error of the k-th submission wrapped under the message of step k
\* ("... the buckets table", "... the files table", "... object
\* relationship for buckets", "... array relationships"); the four messages
\* differ from each other and from the warning of the fifth step.
Contexts ==
    <<"problem adding metadata for the buckets table",
      "problem adding metadata for the files table",
      "problem creaiing object relationship for buckets",
      "problem creating array relationships">>
C14_AbortNamesStep ==
    result.kind = "error" =>
        /\ Len(outcomes) \in 1..4
        /\ result.context = Contexts[Len(outcomes)]
        /\ \A j \in 1..4 : j # Len(outcomes) => result.context # Contexts[j]
        /\ result.context # "problem creating object relationship for users"
        /\ result.cause = err
        /\ err.kind \in {"request", "execute", "status"}
        /\ err.kind = "status" => err.status = resp.status /\ err.response = resp.body
        /\ err.kind = "execute" => err.cause = resp.transport

C14_Witness ==
    /\ result.kind = "error" /\ Len(outcomes) = 4
    /\ result.context = "problem creating array relationships"
    /\ result.cause = StatusError(500, Object(Absent, Str("relation does not exist"), Str("not-exists")))

\* C15: after any answer with a status other than 200, whatever its body,
\* postMetadata has returned: nil, and then only for an error object with an
\* idempotency code, or an error carrying the status and the body; in
\* particular a JSON null body gives an error.
C15_TotalOverNon200 ==
    (resp.transport = "ok" /\ resp.status # 200) =>
        /\ err.kind \in {"nil", "status"}
        /\ Latest.outcome \in {"AlreadyApplied", "Failed"}
        /\ err.kind = "nil" => IdempotentAnswer(resp)
        /\ resp.body.kind = "null" => err = StatusError(resp.status, resp.body)

\* the part of C15 that holds: every body but JSON null
C15_TotalButNull ==
    (resp.transport = "ok" /\ resp.status # 200) =>
        /\ resp.body.kind # "null" =>
              /\ err.kind \in {"nil", "status"}
              /\ err.kind = "nil" => IdempotentAnswer(resp)
        /\ resp.body.kind = "null" => err = Panic /\ pc = "panicked"

C15_FailingInput ==
    /\ resp = Answer("ok", 500, Plain("null"))
    /\ Len(outcomes) = 1 /\ err = Panic /\ pc = "panicked" /\ result = Panicked

\* C16: what postMetadata returns is a function of what client.Do gave that
\* call alone (the same at every step and after any earlier outcomes), and
\* two invocations with the same url that are given the same answers issue
\* the same calls and end with the same result.
ByAnswerAlone(r) ==
    IF r.transport # "ok" THEN Err("execute", 0, NoBody, r.transport)
    ELSE IF r.status = 200 THEN NilErr
    ELSE IF IdempotentAnswer(r) THEN NilErr
    ELSE IF r.body.kind = "null" THEN Panic
    ELSE StatusError(r.status, r.body)
C16_StatelessAndRepeatable ==
    /\ resp # NoResponse => resp = script[Len(outcomes)] /\ err = ByAnswerAlone(resp)
    /\ (previous.set /\ previous.url = url) =>
          /\ Len(calls) <= Len(previous.calls)
          /\ calls = SubSeq(previous.calls, 1, Len(calls))
          /\ Ended => calls = previous.calls /\ result = previous.result

C16_Witness ==
    /\ previous.set /\ previous.url = url /\ ValidURL(url) /\ Ended
    /\ Len(calls) = 3 /\ calls = previous.calls /\ result = previous.result
    /\ outcomes[1].outcome = "AlreadyApplied" /\ outcomes[2].outcome = "Applied"
    /\ result.kind = "error"

====
